---- MODULE Spec2Model ----
(***************************************************************************)
(* Typing-test backend (src/main.py): five HTTP routes over one document   *)
(* collection, "typingresult".                                             *)
(*                                                                         *)
(* Numbers (wpm, accuracy, mistakes, duration) are held in tenths, so that *)
(* 85.5 is 855 and the integer 3 is 30; timestamps are points of an        *)
(* integer clock.  A character string whose length matters (an exception   *)
(* message, an id) is a sequence.  A document is a function from field     *)
(* names to values, as a dict is: an absent field is absent from DOMAIN.   *)
(***************************************************************************)
EXTENDS Integers, Sequences, FiniteSets, TLC

VARIABLES db, collection, nextId, clock, posted, req, resp

vars == <<db, collection, nextId, clock, posted, req, resp>>

(* ------------------------------ bounds --------------------------------- *)
MaxDocs == 2
MaxClock == 1
MaxLimit == 2
MaxCollections == 11
MaxErrLen == 51

(* ------------------------- program constants --------------------------- *)
DefaultLimit == 50
TruncLen == 50
CollectionsShown == 10

None == "None"
Tenths(n) == n * 10

Min(a, b) == IF a <= b THEN a ELSE b
Msg(n) == [i \in 1..n |-> i]
Last(s) == s[Len(s)]

(* dict[key] = value *)
SetItem(d, k, v) == [x \in (DOMAIN d) \cup {k} |-> IF x = k THEN v ELSE d[x]]

(* dict.get(key, default) *)
Get(d, k, default) == IF k \in DOMAIN d THEN d[k] ELSE default

(* ----------------------- request payloads (JSON) ----------------------- *)
Num(v) == [t |-> "num", v |-> v]
NumStr(v) == [t |-> "numstr", v |-> v]
Text == [t |-> "str", v |-> 0]

Scenario ==
    [wpm |-> Num(Tenths(85) + 5), accuracy |-> Num(Tenths(97) + 2),
     mistakes |-> Num(Tenths(3)), duration |-> Num(Tenths(60))]

ClientStamped ==
    [wpm |-> Num(Tenths(85) + 5), accuracy |-> Num(Tenths(97) + 2),
     mistakes |-> Num(Tenths(3)), duration |-> Num(Tenths(60)),
     created_at |-> MaxClock + 7]

OtherUser ==
    [wpm |-> NumStr(Tenths(60)), accuracy |-> Num(Tenths(100)),
     mistakes |-> Num(Tenths(0)), duration |-> Num(Tenths(30)),
     user_id |-> "u1"]

BadWpm == [Scenario EXCEPT !.wpm = Text]

BadWpmStamped == [ClientStamped EXCEPT !.wpm = Text]

FractionalMistakes == [Scenario EXCEPT !.mistakes = Num(Tenths(2) + 5)]

MissingDuration ==
    [wpm |-> Num(Tenths(85) + 5), accuracy |-> Num(Tenths(97) + 2),
     mistakes |-> Num(Tenths(3))]

Payloads ==
    {Scenario, ClientStamped, OtherUser, BadWpm, BadWpmStamped,
     FractionalMistakes, MissingDuration}

(* ------------------- Result Schema / SaveResultRequest ----------------- *)
TypingResultFields == {"wpm", "accuracy", "mistakes", "duration"}

CoercesToFloat(x) == x.t \in {"num", "numstr"}

CoercesToInt(x) == x.t \in {"num", "numstr"} /\ x.v % 10 = 0

(* request-body validation done by the framework before the handler runs *)
IsValid(raw) ==
    /\ TypingResultFields \subseteq DOMAIN raw
    /\ CoercesToFloat(raw.wpm)
    /\ CoercesToFloat(raw.accuracy)
    /\ CoercesToInt(raw.mistakes)
    /\ CoercesToInt(raw.duration)

(* the validated SaveResultRequest: declared fields only, user_id = None
   by default *)
SaveResultRequest(raw) ==
    [wpm |-> raw.wpm.v, accuracy |-> raw.accuracy.v,
     mistakes |-> raw.mistakes.v, duration |-> raw.duration.v,
     user_id |-> Get(raw, "user_id", None)]

(* payload.model_dump(): the dict of the declared fields *)
model_dump(payload) ==
    [k \in TypingResultFields \cup {"user_id"} |-> payload[k]]

(* float(x) keeps the value of a number; int(x) drops its fractional
   part, rounding toward zero (numbers are held in tenths) *)
ToFloat(x) == x

ToInt(x) == IF x >= 0 THEN (x \div 10) * 10 ELSE -(((-x) \div 10) * 10)

(* ------------------------- Persistence Adapter ------------------------- *)
RECURSIVE Digits(_)
Digits(n) == IF n < 10 THEN <<n>> ELSE Append(Digits(n \div 10), n % 10)

(* str(inserted_id) *)
IdStr(id) == Digits(id)

(* the collection after insert(collectionName, document) *)
create_document(coll, data, id) == Append(coll, SetItem(data, "_id", id))

(* query(collectionName, {}, limit): insertion order, truncated to limit *)
get_documents(coll, limit) == SubSeq(coll, 1, Min(limit, Len(coll)))

(* ------------------------------ responses ------------------------------ *)
NoTest ==
    [backend |-> "", database |-> [text |-> "", err |-> <<>>],
     database_url |-> "", database_name |-> "", connection_status |-> "",
     collections |-> <<>>]

NoResp ==
    [route |-> "", code |-> 0, message |-> "", errors |-> {},
     detail |-> <<>>, id |-> <<>>, status |-> "", body |-> <<>>,
     test |-> NoTest]

NoReq ==
    [payload |-> <<>>, limit |-> 0, at |-> 0, calls |-> 0, raised |-> FALSE,
     e |-> <<>>, docs |-> <<>>, nows |-> <<>>]

(* HTTPException(status_code=500, detail=...) *)
HTTPException(route, code, detail) ==
    [NoResp EXCEPT !.route = route, !.code = code, !.detail = detail]

(* "Database not configured", 23 characters *)
NotConfigured == Msg(23)

(* the fields of the body the schema rejects *)
ValidationErrors(raw) ==
    {k \in TypingResultFields : k \notin DOMAIN raw}
        \cup {k \in {"wpm", "accuracy"} \cap DOMAIN raw : ~CoercesToFloat(raw[k])}
        \cup {k \in {"mistakes", "duration"} \cap DOMAIN raw : ~CoercesToInt(raw[k])}

RequestValidationError(route, raw) ==
    [NoResp EXCEPT !.route = route, !.code = 422,
                   !.errors = ValidationErrors(raw)]

(* ------------------------------ save_result ---------------------------- *)
POST_RESULTS == "POST /api/results"

(* a handler that only looks for the fields, without coercing them *)
PayloadAcceptedLax(raw) == TypingResultFields \subseteq DOMAIN raw

(* payload: SaveResultRequest -- the body is validated against the model *)
PayloadAccepted(raw) == IsValid(raw)

(* a handler that keeps a created_at the client sent *)
StampedDataClientFirst(raw, now) ==
    SetItem(model_dump(SaveResultRequest(raw)), "created_at",
            Get(raw, "created_at", now))

(* data = payload.model_dump(); data["created_at"] = datetime.now(utc) *)
StampedData(raw, now) ==
    SetItem(model_dump(SaveResultRequest(raw)), "created_at", now)

(* a handler that inserts again after the first insert *)
StoreResultTwice(coll, data, id) ==
    create_document(create_document(coll, data, id), data, id)

(* inserted_id = create_document("typingresult", data) *)
StoreResult(coll, data, id) == create_document(coll, data, id)

(* a handler that cuts the message as the diagnostic route does *)
ErrorDetailCut(e) == SubSeq(e, 1, Min(Len(e), TruncLen))

(* detail=str(e) *)
ErrorDetail(e) == e

SaveOk(id) ==
    [NoResp EXCEPT !.route = POST_RESULTS, !.code = 200, !.id = IdStr(id),
                   !.status = "ok"]

save_result(raw, raises, e) ==
    /\ raises \/ ~PayloadAccepted(raw) \/ db = None \/ Len(collection) < MaxDocs
    /\ IF ~PayloadAccepted(raw)
       THEN /\ resp' = RequestValidationError(POST_RESULTS, raw)
            /\ req' = [NoReq EXCEPT !.payload = raw, !.at = clock]
            /\ UNCHANGED <<collection, nextId, posted>>
       ELSE IF db = None
       THEN /\ resp' = HTTPException(POST_RESULTS, 500, NotConfigured)
            /\ req' = [NoReq EXCEPT !.payload = raw, !.at = clock]
            /\ UNCHANGED <<collection, nextId, posted>>
       ELSE IF raises
       THEN /\ resp' = HTTPException(POST_RESULTS, 500, ErrorDetail(e))
            /\ req' = [NoReq EXCEPT !.payload = raw, !.at = clock,
                                    !.calls = 1, !.raised = TRUE, !.e = e]
            /\ UNCHANGED <<collection, nextId, posted>>
       ELSE /\ collection' = StoreResult(collection, StampedData(raw, clock), nextId)
            /\ nextId' = nextId + 1
            /\ resp' = SaveOk(nextId)
            /\ req' = [NoReq EXCEPT !.payload = raw, !.at = clock, !.calls = 1]
            /\ posted' = posted \cup {[k \in TypingResultFields |-> raw[k].v]}
    /\ UNCHANGED <<db, clock>>

(* ------------------------------ list_results --------------------------- *)
GET_RESULTS == "GET /api/results"

(* a handler that always asks for the default number of documents *)
ListDocsDefaultLimit(coll, limit) == get_documents(coll, DefaultLimit)

(* docs = get_documents("typingresult", {}, limit) *)
ListDocs(coll, limit) == get_documents(coll, limit)

(* a handler that coerces wpm with int() *)
ResultRecordIntWpm(d, now) ==
    [wpm |-> ToInt(Get(d, "wpm", 0)),
     accuracy |-> ToFloat(Get(d, "accuracy", 0)),
     mistakes |-> ToInt(Get(d, "mistakes", 0)),
     duration |-> ToInt(Get(d, "duration", Tenths(60))),
     created_at |-> Get(d, "created_at", now)]

(* a handler whose default duration is 0 *)
ResultRecordZeroDuration(d, now) ==
    [wpm |-> ToFloat(Get(d, "wpm", 0)),
     accuracy |-> ToFloat(Get(d, "accuracy", 0)),
     mistakes |-> ToInt(Get(d, "mistakes", 0)),
     duration |-> ToInt(Get(d, "duration", 0)),
     created_at |-> Get(d, "created_at", now)]

(* ResultRecord(wpm=float(d.get("wpm", 0)), ...) for one document, the
   default of created_at being the clock read while rendering it *)
ResultRecord(d, now) ==
    [wpm |-> ToFloat(Get(d, "wpm", 0)),
     accuracy |-> ToFloat(Get(d, "accuracy", 0)),
     mistakes |-> ToInt(Get(d, "mistakes", 0)),
     duration |-> ToInt(Get(d, "duration", Tenths(60))),
     created_at |-> Get(d, "created_at", now)]

(* list.sort(key=lambda x: x.created_at): stable, ascending *)
RECURSIVE InsertByCreatedAt(_, _)
InsertByCreatedAt(sorted, r) ==
    IF sorted = <<>> \/ Last(sorted).created_at <= r.created_at
    THEN Append(sorted, r)
    ELSE Append(InsertByCreatedAt(SubSeq(sorted, 1, Len(sorted) - 1), r),
                Last(sorted))

RECURSIVE SortedPrefix(_, _)
SortedPrefix(results, n) ==
    IF n = 0 THEN <<>>
    ELSE InsertByCreatedAt(SortedPrefix(results, n - 1), results[n])

(* a handler that returns the records in the order fetched *)
Unsorted(results) == results

(* results.sort(key=lambda x: x.created_at) *)
SortResults(results) == SortedPrefix(results, Len(results))

(* the successive readings of datetime.now(), one per document *)
NowSeqs(n) ==
    {t \in [1..n -> clock..MaxClock] :
        \A i \in 1..n : i > 1 => t[i - 1] <= t[i]}

ListOk(results) ==
    [NoResp EXCEPT !.route = GET_RESULTS, !.code = 200,
                   !.body = SortResults(results)]

list_results(limit, raises, e) ==
    /\ IF db = None
       THEN /\ resp' = HTTPException(GET_RESULTS, 500, NotConfigured)
            /\ req' = [NoReq EXCEPT !.limit = limit, !.at = clock]
            /\ UNCHANGED clock
       ELSE IF raises
       THEN /\ resp' = HTTPException(GET_RESULTS, 500, ErrorDetail(e))
            /\ req' = [NoReq EXCEPT !.limit = limit, !.at = clock, !.calls = 1,
                                    !.raised = TRUE, !.e = e]
            /\ UNCHANGED clock
       ELSE LET docs == ListDocs(collection, limit) IN
            \E nows \in NowSeqs(Len(docs)) :
                /\ resp' = ListOk([i \in 1..Len(docs) |->
                                      ResultRecord(docs[i], nows[i])])
                /\ req' = [NoReq EXCEPT !.limit = limit, !.at = clock,
                                        !.calls = 1, !.docs = docs,
                                        !.nows = nows]
                /\ clock' = IF nows = <<>> THEN clock ELSE Last(nows)
    /\ UNCHANGED <<db, collection, nextId, posted>>

(* ------------------------------ test_database -------------------------- *)
GET_TEST == "GET /test"

(* a handler that reports every collection name *)
AllCollections(names) == names

(* collections[:10] *)
ShownCollections(names) ==
    SubSeq(names, 1, Min(Len(names), CollectionsShown))

(* str(e)[:50] *)
Truncated(e) == SubSeq(e, 1, Min(Len(e), TruncLen))

EnvFlag(isSet) == IF isSet THEN "Set" ELSE "Not Set"

(* the response dict after the try block and the two env lines *)
TestResponse(dbh, raises, e, names, urlSet, nameSet) ==
    [backend |-> "Running",
     database |->
        IF dbh # None
        THEN IF raises
             THEN [text |-> "Connected but Error: ", err |-> Truncated(e)]
             ELSE [text |-> "Connected & Working", err |-> <<>>]
        ELSE [text |-> "Available but not initialized", err |-> <<>>],
     database_url |-> EnvFlag(urlSet),
     database_name |-> EnvFlag(nameSet),
     connection_status |->
        IF dbh # None THEN "Connected" ELSE "Not Connected",
     collections |->
        IF dbh # None /\ ~raises THEN ShownCollections(names) ELSE <<>>]

test_database(raises, e, names, urlSet, nameSet) ==
    /\ resp' = [NoResp EXCEPT !.route = GET_TEST, !.code = 200,
                   !.test = TestResponse(db, raises, e, names, urlSet, nameSet)]
    /\ req' = [NoReq EXCEPT !.at = clock,
                  !.calls = IF db # None THEN 1 ELSE 0,
                  !.raised = (db # None /\ raises),
                  !.e = IF db # None /\ raises THEN e ELSE <<>>]
    /\ UNCHANGED <<db, collection, nextId, clock, posted>>

(* ------------------------------ liveness routes ------------------------ *)
read_root ==
    /\ resp' = [NoResp EXCEPT !.route = "GET /", !.code = 200,
                   !.message = "Typing Test Backend Running"]
    /\ req' = [NoReq EXCEPT !.at = clock]
    /\ UNCHANGED <<db, collection, nextId, clock, posted>>

hello ==
    /\ resp' = [NoResp EXCEPT !.route = "GET /api/hello", !.code = 200,
                   !.message = "Hello from the backend API!"]
    /\ req' = [NoReq EXCEPT !.at = clock]
    /\ UNCHANGED <<db, collection, nextId, clock, posted>>

(* ------------------------------ environment ---------------------------- *)
(* the server clock, datetime.now(timezone.utc), advances *)
Tick ==
    /\ clock < MaxClock
    /\ clock' = clock + 1
    /\ UNCHANGED <<db, collection, nextId, posted, req, resp>>

(* exception messages of the storage layer: empty, exactly at and beyond
   the length the diagnostic route cuts at *)
ExcMessages == {Msg(0), Msg(TruncLen), Msg(MaxErrLen)}

(* what a storage call does: it returns, or it raises with a message *)
Faults ==
    {[raises |-> FALSE, e |-> <<>>]}
        \cup {[raises |-> TRUE, e |-> m] : m \in ExcMessages}

CollectionNames == {Msg(0), Msg(CollectionsShown), Msg(MaxCollections)}

(* what db.list_collection_names() does: it returns names, or it raises *)
Listings ==
    {[raises |-> FALSE, e |-> <<>>, names |-> n] : n \in CollectionNames}
        \cup {[raises |-> TRUE, e |-> m, names |-> <<>>] : m \in ExcMessages}

Limits == 0..MaxLimit \cup {DefaultLimit}

(* documents written before this process started: every subset of the
   fields of the persisted layout may be missing *)
StoredFields == {"wpm", "accuracy", "mistakes", "duration", "created_at"}

HistoricalDoc ==
    [wpm |-> Tenths(70) + 5, accuracy |-> Tenths(90), mistakes |-> Tenths(5),
     duration |-> Tenths(30), created_at |-> 0, _id |-> 1]

HistoricalDocs ==
    {[k \in S \cup {"_id"} |-> HistoricalDoc[k]] : S \in SUBSET StoredFields}

Init ==
    /\ db \in {None, "db"}
    /\ collection \in {<<>>} \cup {<<d>> : d \in HistoricalDocs}
    /\ nextId = Len(collection) + 1
    /\ clock = 0
    /\ posted = {}
    /\ req = NoReq
    /\ resp = NoResp

Next ==
    \/ read_root
    \/ hello
    \/ \E l \in Listings, urlSet \in BOOLEAN, nameSet \in BOOLEAN :
          test_database(l.raises, l.e, l.names, urlSet, nameSet)
    \/ \E raw \in Payloads, f \in Faults : save_result(raw, f.raises, f.e)
    \/ \E limit \in Limits, f \in Faults : list_results(limit, f.raises, f.e)
    \/ Tick

Spec == Init /\ [][Next]_vars

(* ======================================================================= *)
(*                               properties                                *)
(* ======================================================================= *)
IsPost(r) == r.route = POST_RESULTS
IsList(r) == r.route = GET_RESULTS
Succeeded(r) == r.code = 200

(* a record of the list response carries the numbers posted *)
Carries(r, p) ==
    /\ r.wpm = p.wpm
    /\ r.accuracy = p.accuracy
    /\ r.mistakes = p.mistakes
    /\ r.duration = p.duration

PostAnswersOk ==
    (IsPost(resp) /\ Succeeded(resp)) => (resp.id # <<>> /\ resp.status = "ok")

(* C1, as stated: a successful POST answers a non-empty id and status "ok",
   and every later successful GET /api/results, whatever its limit, lists a
   record carrying the wpm, accuracy, mistakes and duration posted. *)
C1_EveryListCarriesPosted ==
    /\ PostAnswersOk
    /\ (IsList(resp) /\ Succeeded(resp)) =>
          \A p \in posted : \E i \in 1..Len(resp.body) : Carries(resp.body[i], p)

(* C1, amended: a successful POST answers a non-empty id and status "ok",
   and every later successful GET /api/results whose limit is at least the
   number of documents then stored lists a record carrying the numbers
   posted. *)
C1_ListWithinLimitCarriesPosted ==
    /\ PostAnswersOk
    /\ (IsList(resp) /\ Succeeded(resp) /\ req.limit >= Len(collection)) =>
          \A p \in posted : \E i \in 1..Len(resp.body) : Carries(resp.body[i], p)

C1_Witness ==
    /\ IsList(resp) /\ Succeeded(resp)
    /\ Cardinality(posted) = 2
    /\ req.limit = Len(collection)
    /\ Len(resp.body) = 2

(* C2: a successful GET /api/results?limit=N, N >= 0, returns at most N
   records. *)
C2_AtMostLimit ==
    (IsList(resp) /\ Succeeded(resp)) => Len(resp.body) <= req.limit

C2_Witness ==
    /\ IsList(resp) /\ Succeeded(resp)
    /\ req.limit >= 1
    /\ Len(collection) > req.limit
    /\ Len(resp.body) = req.limit

(* C3: the records of every successful GET /api/results are in
   non-decreasing order of created_at, also when documents without a
   created_at (given the time of the read) are mixed with documents that
   carry one. *)
C3_SortedByCreatedAt ==
    (IsList(resp) /\ Succeeded(resp)) =>
        \A i, j \in 1..Len(resp.body) :
            i < j => resp.body[i].created_at <= resp.body[j].created_at

C3_Witness ==
    /\ IsList(resp) /\ Succeeded(resp)
    /\ Len(req.docs) = 2
    /\ "created_at" \notin DOMAIN req.docs[1]
    /\ "created_at" \in DOMAIN req.docs[2]
    /\ req.docs[2].created_at < req.nows[1]

(* C4: a POST /api/results whose wpm cannot be coerced to a number is
   answered with a validation error (422) before any storage call, and the
   collection is the same after the request as before it, storage
   configured or not. *)
C4_BadWpmRejectedBeforeStorage ==
    [][(IsPost(resp') /\ "wpm" \in DOMAIN req'.payload
            /\ req'.payload.wpm.t = "str") =>
          /\ resp'.code = 422
          /\ "wpm" \in resp'.errors
          /\ req'.calls = 0
          /\ collection' = collection]_vars

C4_Witness ==
    /\ IsPost(resp) /\ resp.code = 422
    /\ req.payload.wpm.t = "str"
    /\ db # None
    /\ Len(collection) = 1

(* C5: with the db handle None, every valid POST /api/results and every
   GET /api/results is answered 500 with a non-empty message and without a
   storage call, and GET /test is answered 200 with its database field
   reporting the database as not available. *)
C5_UnconfiguredStorage ==
    db = None =>
        /\ (IsList(resp) \/ (IsPost(resp) /\ IsValid(req.payload))) =>
              (resp.code = 500 /\ resp.detail # <<>> /\ req.calls = 0)
        /\ resp.route = GET_TEST =>
              (resp.code = 200 /\ resp.test.database.text = "Not Available")

(* C6: GET /test always answers 200; a storage error is rendered as text
   in the database field, cut from the error's message, and the collections
   list has at most 10 names. *)
C6_TestNeverFails ==
    resp.route = GET_TEST =>
        /\ resp.code = 200
        /\ resp.detail = <<>>
        /\ Len(resp.test.collections) <= 10
        /\ req.raised =>
              /\ resp.test.database.text = "Connected but Error: "
              /\ Len(resp.test.database.err) <= Len(req.e)
              /\ resp.test.database.err
                    = SubSeq(req.e, 1, Len(resp.test.database.err))
        /\ db = None => resp.test.connection_status = "Not Connected"

C6_Witness ==
    /\ resp.route = GET_TEST /\ resp.code = 200
    /\ req.raised
    /\ Len(req.e) > Len(resp.test.database.err)

(* C7: the created_at of the record a POST /api/results inserts is the
   server clock at the insertion, whatever the payload holds, a created_at
   sent by the client included. *)
C7_CreatedAtIsServerClock ==
    (IsPost(resp) /\ Succeeded(resp)) =>
        Last(collection).created_at = req.at

C7_Witness ==
    /\ IsPost(resp) /\ Succeeded(resp)
    /\ "created_at" \in DOMAIN req.payload
    /\ req.payload.created_at # req.at
    /\ Last(collection).created_at = req.at

(* C8: no request removes or changes a stored document; only a successful
   POST /api/results adds one, exactly one; the GET routes leave the
   collection as it is; the id a successful POST returns is the id of the
   document it added and differs from the id of every document stored
   before. *)
C8_AppendOnly ==
    [][/\ Len(collection') >= Len(collection)
       /\ SubSeq(collection', 1, Len(collection)) = collection
       /\ collection' # collection =>
             (IsPost(resp') /\ Succeeded(resp'))
       /\ (resp' # resp /\ IsPost(resp') /\ Succeeded(resp')) =>
             /\ Len(collection') = Len(collection) + 1
             /\ resp'.id = IdStr(Last(collection')._id)
             /\ \A i \in 1..Len(collection) :
                   resp'.id # IdStr(collection[i]._id)
       /\ ~IsPost(resp') => collection' = collection]_vars

C8_Witness ==
    /\ IsPost(resp) /\ Succeeded(resp)
    /\ Len(collection) = 2
    /\ resp.id = IdStr(collection[2]._id)

(* the record a document is to be shown as, per field: the stored value
   when present, else 0, 0, 0, 60 and the time of the read *)
Lenient(d, now) ==
    [wpm |-> IF "wpm" \in DOMAIN d THEN d.wpm ELSE 0,
     accuracy |-> IF "accuracy" \in DOMAIN d THEN d.accuracy ELSE 0,
     mistakes |-> IF "mistakes" \in DOMAIN d THEN d.mistakes ELSE 0,
     duration |-> IF "duration" \in DOMAIN d THEN d.duration ELSE Tenths(60),
     created_at |-> IF "created_at" \in DOMAIN d THEN d.created_at ELSE now]

(* C9: when the fetch itself does not raise, GET /api/results succeeds
   whatever fields the stored documents lack, and shows each document with
   wpm = 0, accuracy = 0, mistakes = 0, duration = 60 and created_at = the
   time of the read for exactly its absent fields and the stored values for
   the others. *)
C9_MissingFieldsDefaulted ==
    (IsList(resp) /\ db # None /\ ~req.raised) =>
        /\ resp.code = 200
        /\ Len(resp.body) = Len(req.docs)
        /\ \A i \in 1..Len(req.docs) :
              req.at <= req.nows[i] /\ req.nows[i] <= clock
        /\ \E f \in [1..Len(req.docs) -> 1..Len(req.docs)] :
              /\ \A i, j \in 1..Len(req.docs) : f[i] = f[j] => i = j
              /\ \A i \in 1..Len(req.docs) :
                    resp.body[f[i]] = Lenient(req.docs[i], req.nows[i])

C9_Witness ==
    /\ IsList(resp) /\ Succeeded(resp)
    /\ Len(req.docs) = 2
    /\ DOMAIN req.docs[1] = {"_id"}
    /\ resp.body[2].duration = Tenths(60) /\ resp.body[2].mistakes = 0

(* C10, as stated: when storage is configured and the insert or fetch
   raises, the request is answered 500 with a truncated description of the
   failure, never "ok", and a failed GET returns no list. *)
C10_FailureTruncated ==
    (req.raised /\ (IsPost(resp) \/ IsList(resp))) =>
        /\ resp.code = 500
        /\ Len(resp.detail) <= TruncLen
        /\ resp.detail = SubSeq(req.e, 1, Len(resp.detail))
        /\ resp.status # "ok"
        /\ resp.body = <<>>

(* C10, amended: when storage is configured and the insert or fetch
   raises, the request is answered 500 with the whole message of the
   failure as its detail, after one storage call; a failed POST answers no
   id and no "ok" and leaves the collection as it was, and a failed GET
   returns no list. *)
C10_FailureSurfacedWhole ==
    [][(req'.raised /\ (IsPost(resp') \/ IsList(resp'))) =>
          /\ resp'.code = 500
          /\ resp'.detail = req'.e
          /\ resp'.status # "ok"
          /\ resp'.id = <<>>
          /\ resp'.body = <<>>
          /\ req'.calls = 1
          /\ collection' = collection]_vars

C10_Witness ==
    /\ req.raised /\ IsPost(resp)
    /\ resp.code = 500
    /\ Len(resp.detail) > TruncLen
    /\ Len(collection) = 1

====
